---- MODULE Spec2Model ----
(***************************************************************************)
(* Model of cli-gpt (src/src/main.rs): the raw-mode line editor read_pmt,  *)
(* the terminal it drives, the session loop App::run around it, and the    *)
(* turn of the initial prompt: send_message, the consumption of the        *)
(* response stream and render_resp.                                        *)
(*                                                                         *)
(* A Rust String is modelled as its sequence of UTF-8 bytes: an ASCII      *)
(* character is one byte, a two-byte character is a lead byte followed by  *)
(* the continuation byte Cont.  String indices are byte indices, as in     *)
(* the code (String::insert, String::remove, String::drain, len()).        *)
(*                                                                         *)
(* The terminal is a grid of Height rows.  Rows are sequences of the       *)
(* characters shown, without trailing blanks.  Lines never reach the       *)
(* terminal width, so no wrapping is modelled.  Column arguments of        *)
(* MoveToColumn are 1-based (crossterm 0.23, as re-exported by termimad).   *)
(***************************************************************************)
EXTENDS Integers, Sequences, FiniteSets, TLC

\* ---------------------------------------------------------------- bounds
MaxKeys == 7       \* key events handled in one run of the program
Height == 5        \* rows of the terminal
MaxItems == 2      \* items of one response stream
Width == 8         \* columns of the terminal of a session; no line written reaches it
MaxWidth == 4      \* terminal widths for which the row count is computed alone

\* ------------------------------------------------------------- alphabet
NL == "\n"
Cont == "~"                    \* continuation byte of a two-byte character
Blank == " "
Mark == "#"                    \* a row of earlier program output
KeyChars == {"a", "E"}         \* "E" stands for a two-byte character such as e-acute

Min(a, b) == IF a < b THEN a ELSE b
Max(a, b) == IF a > b THEN a ELSE b

\* char::to_string / the UTF-8 encoding of c
Utf8(c) == IF c = "E" THEN <<"E", Cont>> ELSE <<c>>

\* str::is_char_boundary
IsCharBoundary(s, i) ==
    \/ i = 0
    \/ i = Len(s)
    \/ (i > 0 /\ i < Len(s) /\ s[i + 1] # Cont)

\* the characters of a string (what a terminal shows for its bytes)
Decode(s) == SelectSeq(s, LAMBDA b : b # Cont)

\* str::ends_with('\n')
EndsWithNL(s) == Len(s) > 0 /\ s[Len(s)] = NL

\* Vec<String>::join("") and Iterator::collect::<String>()
RECURSIVE Join(_)
Join(ss) == IF ss = <<>> THEN <<>> ELSE Head(ss) \o Join(Tail(ss))

\* Vec::insert(i, x), i 0-based, i <= len
VecInsert(v, i, x) == SubSeq(v, 1, i) \o <<x>> \o SubSeq(v, i + 1, Len(v))

\* String::insert(idx, ch) is defined when idx is a char boundary
CanInsert(s, idx) == idx <= Len(s) /\ IsCharBoundary(s, idx)
StrInsert(s, idx, bytes) == SubSeq(s, 1, idx) \o bytes \o SubSeq(s, idx + 1, Len(s))

\* String::remove(idx) is defined when a character starts at idx
CanRemove(s, idx) == idx < Len(s) /\ IsCharBoundary(s, idx)
CharLenAt(s, idx) == IF idx + 2 <= Len(s) /\ s[idx + 2] = Cont THEN 2 ELSE 1
StrRemove(s, idx) == SubSeq(s, 1, idx) \o SubSeq(s, idx + CharLenAt(s, idx) + 1, Len(s))

\* ------------------------------------------------------------- terminal
\* A terminal is [rows, r, c, top]: the grid, the cursor (0-based row and
\* column) and top, the row on which the current edit region began; top is -1
\* once that row has scrolled off the grid.
RECURSIVE Trim(_)
Trim(row) ==
    IF row # <<>> /\ row[Len(row)] = Blank THEN Trim(SubSeq(row, 1, Len(row) - 1)) ELSE row

\* cursor::MoveToColumn(n): CSI n G, column 1 is the start of the line
TMoveToColumn(t, n) == [t EXCEPT !.c = IF n = 0 THEN 0 ELSE n - 1]
\* cursor::MoveUp(n): nothing is written for n = 0; stops at the first row
TMoveUp(t, n) == [t EXCEPT !.r = Max(0, t.r - n)]
\* cursor::MoveDown(n): stops at the last row
TMoveDown(t, n) == [t EXCEPT !.r = Min(Height - 1, t.r + n)]
TMoveLeft(t, n) == [t EXCEPT !.c = Max(0, t.c - n)]
TMoveRight(t, n) == [t EXCEPT !.c = t.c + n]
\* cursor::MoveToPreviousLine(n): n rows up and to the first column; nothing
\* is written for n = 0
TMoveToPreviousLine(t, n) == IF n = 0 THEN t ELSE [t EXCEPT !.r = Max(0, t.r - n), !.c = 0]

\* a line feed: one row down, scrolling the grid when on the last row
TLineFeed(t) ==
    IF t.r = Height - 1
    THEN [t EXCEPT !.rows = Tail(t.rows) \o << <<>> >>, !.top = Max(-1, t.top - 1)]
    ELSE [t EXCEPT !.r = t.r + 1]

\* one printable character written at the cursor
TPutChar(t, ch) ==
    LET row == t.rows[t.r + 1]
        n == Max(Len(row), t.c + 1)
        new == [i \in 1..n |-> IF i = t.c + 1 THEN ch
                                ELSE IF i <= Len(row) THEN row[i] ELSE Blank]
    IN  [t EXCEPT !.rows[t.r + 1] = Trim(new), !.c = t.c + 1]

\* text written to the terminal.  In raw mode "\n" is a bare line feed; with
\* raw mode disabled the tty turns it into carriage return + line feed.
RECURSIVE TWrite(_, _, _)
TWrite(t, chars, cooked) ==
    IF chars = <<>> THEN t
    ELSE LET ch == Head(chars)
             t1 == IF ch = NL
                   THEN (IF cooked THEN TLineFeed([t EXCEPT !.c = 0]) ELSE TLineFeed(t))
                   ELSE TPutChar(t, ch)
         IN  TWrite(t1, Tail(chars), cooked)

\* style::Print(string) / print!: the string's characters
TPrint(t, bytes, cooked) == TWrite(t, Decode(bytes), cooked)

\* Clear(ClearType::CurrentLine): CSI 2 K
TClearCurrentLine(t) == [t EXCEPT !.rows[t.r + 1] = <<>>]

\* Clear(ClearType::FromCursorDown): CSI J
TClearFromCursorDown(t) ==
    [t EXCEPT !.rows = [i \in 1..Height |->
        IF i < t.r + 1 THEN t.rows[i]
        ELSE IF i = t.r + 1 THEN Trim(SubSeq(t.rows[i], 1, Min(t.c, Len(t.rows[i]))))
        ELSE <<>>]]

\* App::render_current_line
render_current_line(t, current_line) ==
    LET t1 == TMoveToColumn(t, 1)                \* after SavePosition of (t.r, t.c)
        t2 == TClearCurrentLine(t1)
        t3 == TPrint(t2, current_line, FALSE)
    IN  [t3 EXCEPT !.r = t.r, !.c = t.c]         \* RestorePosition

\* ---------------------------------------------------------------- state
VARIABLES
    pc,              \* "start", "editing", "returned", "exited", "panicked"
    raw,             \* whether the terminal is in raw mode
    pmts,            \* read_pmt: the lines of the buffer, each a byte sequence
    cursor_index,    \* read_pmt: byte offset of the cursor in the active line
    pmts_index,      \* read_pmt: 0-based index of the active line
    term,            \* the terminal
    result,          \* the String read_pmt returned
    exit_code,       \* the exit status once the process has ended, else -1
    overflow_checks, \* whether the build panics on integer overflow (debug) or wraps
    history,         \* App::history, a sequence of [role, content]
    requests,        \* the message lists of the requests submitted so far
    reads,           \* how many times read_pmt has returned
    keys,            \* key events handled so far
    last,            \* the event handled last
    ref,             \* reference editor: [lines, row, col] in characters
    single,          \* only single-line events since read_pmt began
    initial_pmt,     \* App::initial_pmt
    stream,          \* the items of the response stream not yet consumed
    stream_items,    \* all items of the response stream, in arrival order
    resp_buf,        \* streaming_and_rendering_resp: the accumulated text
    resp_lines,      \* render_resp: the row count
    screen_width,    \* size().0, the terminal width
    ok_turns,        \* turns whose response stream was consumed to its end
    failed           \* submissions that returned an error

\* the state of the session around the editor
sess == <<initial_pmt, stream, stream_items, resp_buf, resp_lines, screen_width,
          ok_turns, failed>>

vars == <<pc, raw, pmts, cursor_index, pmts_index, term, result, exit_code,
          overflow_checks, history, requests, reads, keys, last, ref, single, sess>>

\* the hook main installs with panic::set_hook: disable_raw_mode()
PanicHookKeepsRaw(r) == r
panic_hook(r) == FALSE

\* the editor's registers while one key event is handled
St == [pmts |-> pmts, pi |-> pmts_index, ci |-> cursor_index,
       term |-> term, raw |-> raw, out |-> "continue"]

\* a panic: the hook runs, then the process ends
Panic(s) == [s EXCEPT !.out = "panic", !.raw = panic_hook(s.raw)]

\* current_line.len(), less one when the line ends with '\n'
Cln(line) == IF EndsWithNL(line) THEN Len(line) - 1 ELSE Len(line)

CtrlEnterMsg == <<"c", "t", "r", "l", Blank, "+", Blank, "e", "n", "t", "e", "r", NL>>
ByeMsg == <<NL, "B", "y", "e", "!", NL>>

\* ------------------------------------------------------ the key handlers
\* Enter with CONTROL: disable raw mode, println!, return pmts.join("")
OnSubmit(s) ==
    [s EXCEPT !.raw = FALSE, !.term = TWrite(s.term, CtrlEnterMsg, TRUE), !.out = "return"]

\* Enter on the last line: the line gets a '\n' pushed, a line "\n" follows it
EnterLastLine(s) ==
    LET line == s.pmts[s.pi + 1]
        p1 == [s.pmts EXCEPT ![s.pi + 1] = Append(line, NL)]
        p2 == VecInsert(p1, s.pi + 1, <<NL>>)
        t1 == TPrint(TMoveToColumn(s.term, 1), <<NL>>, FALSE)
    IN  [s EXCEPT !.pmts = p2, !.pi = s.pi + 1, !.term = t1, !.ci = 0]

\* Enter on a line that is not the last: split at the cursor and redraw the
\* lines below.  fail names the step that fails, if any: the first or the
\* second cursor::position() query, or the print! between them.
EnterSplit(s, fail) ==
    LET line == s.pmts[s.pi + 1]
    IN  IF ~CanInsert(line, s.ci) THEN Panic(s)
        ELSE
        LET l1 == StrInsert(line, s.ci, <<NL>>)
            right == SubSeq(l1, s.ci + 2, Len(l1))
            left == SubSeq(l1, 1, s.ci + 1)
            p1 == VecInsert([s.pmts EXCEPT ![s.pi + 1] = left], s.pi + 1, right)
            s1 == [s EXCEPT !.pmts = p1]
            last_row == s.term.r
            t1 == TClearFromCursorDown(s.term)
            other_lines == Join(SubSeq(p1, s.pi + 2, Len(p1)))
            t2 == TPrint(t1, <<NL>> \o other_lines, TRUE)
            current_row == t2.r
            d == current_row - last_row - 1
            t3 == TMoveToColumn(TMoveUp(t2, d % 65536), 1)
        IN  CASE fail = "query1" -> Panic(s1)
              [] fail = "print" -> Panic([s1 EXCEPT !.term = t1, !.raw = FALSE])
              [] fail = "query2" -> Panic([s1 EXCEPT !.term = t2])
              [] OTHER ->
                    IF d < 0 /\ overflow_checks THEN Panic([s1 EXCEPT !.term = t2])
                    ELSE [s1 EXCEPT !.term = t3, !.ci = 0, !.pi = s.pi + 1]

\* Enter when pmts.get_mut(pmts_index) is None
EnterNoLine(s) ==
    IF s.pi > Len(s.pmts) THEN Panic(s)
    ELSE [s EXCEPT !.pmts = VecInsert(s.pmts, s.pi, <<NL>>),
                   !.term = TPrint(s.term, <<NL>>, FALSE),
                   !.pi = s.pi + 1]

OnEnter(s, fail) ==
    IF s.pi < Len(s.pmts)
    THEN IF s.pi = Len(s.pmts) - 1 THEN EnterLastLine(s) ELSE EnterSplit(s, fail)
    ELSE EnterNoLine(s)

\* the clamp of Up: cursor_index > len - 1 moves to column len, index len - 1
UpClamp(s, line) ==
    IF Len(line) = 0
    THEN (IF overflow_checks THEN Panic(s) ELSE s)
    ELSE IF s.ci > Len(line) - 1
         THEN [s EXCEPT !.term = TMoveToColumn(s.term, Len(line)), !.ci = Len(line) - 1]
         ELSE s

OnUp(s) ==
    IF s.pi > 0
    THEN LET s1 == [s EXCEPT !.term = TMoveUp(s.term, 1), !.pi = s.pi - 1]
         IN  IF s1.pi >= Len(s.pmts) THEN Panic(s1)
             ELSE UpClamp(s1, s.pmts[s1.pi + 1])
    ELSE s

\* the clamp of Down: cursor_index > len - 1 moves to column 1 + len, index len
DownClamp(s, line) ==
    IF Len(line) = 0
    THEN (IF overflow_checks THEN Panic(s) ELSE s)
    ELSE IF s.ci > Len(line) - 1
         THEN [s EXCEPT !.term = TMoveToColumn(s.term, 1 + Len(line)), !.ci = Len(line)]
         ELSE s

OnDown(s) ==
    IF Len(s.pmts) = 0 /\ overflow_checks THEN Panic(s)
    ELSE IF Len(s.pmts) = 0 \/ s.pi < Len(s.pmts) - 1
         THEN LET s1 == [s EXCEPT !.term = TMoveDown(s.term, 1), !.pi = s.pi + 1]
              IN  IF s1.pi >= Len(s.pmts) THEN Panic(s1)
                  ELSE DownClamp(s1, s.pmts[s1.pi + 1])
         ELSE s

OnLeft(s) ==
    IF s.ci > 0 THEN [s EXCEPT !.term = TMoveLeft(s.term, 1), !.ci = s.ci - 1] ELSE s

OnRight(s) ==
    IF s.pi < Len(s.pmts) /\ s.ci < Cln(s.pmts[s.pi + 1])
    THEN [s EXCEPT !.term = TMoveRight(s.term, 1), !.ci = s.ci + 1]
    ELSE s

\* the redraw of Ctrl+C on a non-empty pmts; the edit region restarts at the cursor
CtrlCClear(t, n) ==
    LET t1 == TMoveUp(TMoveToColumn(t, 1), n - 1)
        t2 == TMoveToColumn(TClearFromCursorDown(t1), 1)
    IN  [t2 EXCEPT !.top = t2.r]

OnCtrlC(s) ==
    IF s.pmts = <<>>
    THEN [s EXCEPT !.raw = FALSE, !.term = TWrite(s.term, ByeMsg, TRUE), !.out = "exit"]
    ELSE [s EXCEPT !.term = CtrlCClear(s.term, Len(s.pmts)),
                   !.pmts = <<>>, !.pi = 0, !.ci = 0]

OnCtrlE(s) ==
    IF s.pi < Len(s.pmts)
    THEN LET cln == Cln(s.pmts[s.pi + 1])
         IN  [s EXCEPT !.ci = cln, !.term = TMoveToColumn(s.term, cln + 1)]
    ELSE s

OnCtrlA(s) == [s EXCEPT !.term = TMoveToColumn(s.term, 1), !.ci = 0]

\* any other Char(c): insert c at the cursor
OnChar(s, c) ==
    IF s.pi < Len(s.pmts)
    THEN LET line == s.pmts[s.pi + 1]
         IN  IF ~CanInsert(line, s.ci) THEN Panic(s)
             ELSE LET l1 == StrInsert(line, s.ci, Utf8(c))
                      ci1 == s.ci + 1
                      t1 == IF ci1 # Cln(l1)
                            THEN TMoveRight(render_current_line(s.term, l1), 1)
                            ELSE TPrint(s.term, Utf8(c), FALSE)
                  IN  [s EXCEPT !.pmts[s.pi + 1] = l1, !.ci = ci1, !.term = t1]
    ELSE IF s.pi > Len(s.pmts) THEN Panic(s)
         ELSE [s EXCEPT !.pmts = VecInsert(s.pmts, s.pi, Utf8(c)),
                        !.term = TPrint(s.term, Utf8(c), FALSE),
                        !.ci = s.ci + 1]

\* Backspace | Delete
OnBackspace(s) ==
    IF s.ci > 0
    THEN IF s.pi >= Len(s.pmts) THEN Panic(s)
         ELSE LET line == s.pmts[s.pi + 1]
                  ci1 == s.ci - 1
              IN  IF ~CanRemove(line, ci1) THEN Panic([s EXCEPT !.ci = ci1])
                  ELSE LET l1 == StrRemove(line, ci1)
                           t1 == IF l1 # <<>>
                                 THEN TMoveLeft(render_current_line(s.term, l1), 1)
                                 ELSE TMoveToColumn(TClearCurrentLine(s.term), 1)
                       IN  [s EXCEPT !.pmts[s.pi + 1] = l1, !.ci = ci1, !.term = t1]
    ELSE s

\* any other key code: break, disable raw mode, return pmts.join("")
OtherKeyIgnored(s) == s
OnOther(s) == [s EXCEPT !.raw = FALSE, !.out = "return"]

\* ------------------------------------------------- the reference editor
\* The editor of the specification, on lines of characters: the lines hold no
\* newline markers, row and col are 0-based and count characters.
RefEmpty == [lines |-> << <<>> >>, row |-> 0, col |-> 0]
RefLine(rf) == rf.lines[rf.row + 1]

RefInsert(rf, c) ==
    LET l == RefLine(rf)
    IN  [rf EXCEPT !.lines[rf.row + 1] = SubSeq(l, 1, rf.col) \o <<c>> \o SubSeq(l, rf.col + 1, Len(l)),
                   !.col = rf.col + 1]

RefBackspace(rf) ==
    LET l == RefLine(rf)
    IN  IF rf.col = 0 THEN rf
        ELSE [rf EXCEPT !.lines[rf.row + 1] = SubSeq(l, 1, rf.col - 1) \o SubSeq(l, rf.col + 1, Len(l)),
                        !.col = rf.col - 1]

RefNewline(rf) ==
    LET l == RefLine(rf)
        before == SubSeq(l, 1, rf.col)
        after == SubSeq(l, rf.col + 1, Len(l))
    IN  [lines |-> SubSeq(rf.lines, 1, rf.row) \o <<before, after>>
                   \o SubSeq(rf.lines, rf.row + 2, Len(rf.lines)),
         row |-> rf.row + 1, col |-> 0]

RefMoveTo(rf, row) ==
    IF row < 0 \/ row >= Len(rf.lines) THEN rf
    ELSE [rf EXCEPT !.row = row, !.col = Min(rf.col, Len(rf.lines[row + 1]))]

RefLeft(rf) == [rf EXCEPT !.col = Max(0, rf.col - 1)]
RefRight(rf) == [rf EXCEPT !.col = Min(Len(RefLine(rf)), rf.col + 1)]
RefHome(rf) == [rf EXCEPT !.col = 0]
RefEnd(rf) == [rf EXCEPT !.col = Len(RefLine(rf))]

\* the lines joined by the newline character
RECURSIVE RefText(_)
RefText(ls) ==
    IF Len(ls) = 0 THEN <<>>
    ELSE IF Len(ls) = 1 THEN ls[1]
    ELSE ls[1] \o <<NL>> \o RefText(Tail(ls))

RefStep(rf, key, c) ==
    CASE key = "Char" -> RefInsert(rf, c)
      [] key = "Backspace" -> RefBackspace(rf)
      [] key = "Enter" -> RefNewline(rf)
      [] key = "Up" -> RefMoveTo(rf, rf.row - 1)
      [] key = "Down" -> RefMoveTo(rf, rf.row + 1)
      [] key = "Left" -> RefLeft(rf)
      [] key = "Right" -> RefRight(rf)
      [] key = "CtrlA" -> RefHome(rf)
      [] key = "CtrlE" -> RefEnd(rf)
      [] key = "CtrlC" -> RefEmpty
      [] OTHER -> rf

SingleLineKeys == {"Char", "Backspace", "Left", "Right", "CtrlA", "CtrlE"}

\* --------------------------------------------------------------- actions
\* the outcome res of handling one key event becomes the next state
Handle(key, c, res) ==
    /\ pc = "editing"
    /\ keys < MaxKeys
    /\ keys' = keys + 1
    /\ pmts' = res.pmts
    /\ pmts_index' = res.pi
    /\ cursor_index' = res.ci
    /\ term' = res.term
    /\ raw' = res.raw
    /\ pc' = CASE res.out = "continue" -> "editing"
               [] res.out = "return" -> "returned"
               [] res.out = "exit" -> "exited"
               [] OTHER -> "panicked"
    /\ result' = IF res.out = "return" THEN Join(res.pmts) ELSE result
    /\ exit_code' = CASE res.out = "exit" -> 0
                      [] res.out = "panic" -> 101
                      [] OTHER -> exit_code
    /\ reads' = IF res.out = "return" THEN reads + 1 ELSE reads
    /\ last' = key
    /\ ref' = RefStep(ref, key, c)
    /\ single' = (single /\ key \in SingleLineKeys)
    /\ UNCHANGED <<overflow_checks, history, requests, sess>>

KeySubmit == Handle("Submit", "", OnSubmit(St))

KeyEnter ==
    \E fail \in {"none", "query1", "print", "query2"} : Handle("Enter", "", OnEnter(St, fail))

KeyUp == Handle("Up", "", OnUp(St))
KeyDown == Handle("Down", "", OnDown(St))
KeyLeft == Handle("Left", "", OnLeft(St))
KeyRight == Handle("Right", "", OnRight(St))
KeyCtrlC == Handle("CtrlC", "", OnCtrlC(St))
KeyCtrlE == Handle("CtrlE", "", OnCtrlE(St))
KeyCtrlA == Handle("CtrlA", "", OnCtrlA(St))

KeyChar ==
    \E c \in KeyChars : Handle("Char", c, OnChar(St, c))

KeyBackspace == Handle("Backspace", "", OnBackspace(St))
KeyOther == Handle("Other", "", OnOther(St))

\* event::read() fails: the unwrap panics
EventReadError == Handle("ReadError", "", Panic(St))

\* event::read() yields an event that is no key event (resize, mouse): the
\* if-let does not match, stdout is flushed and the loop reads on
EventNonKey == Handle("NonKey", "", St)

\* the edit state with which read_pmt begins, on the terminal t
EnterReadPmt(t) ==
    /\ pc' = "editing"
    /\ raw' = TRUE
    /\ term' = [t EXCEPT !.top = t.r]
    /\ pmts' = <<>>
    /\ cursor_index' = 0
    /\ pmts_index' = 0
    /\ ref' = RefEmpty
    /\ single' = TRUE

\* the banner App::run prints before the loop when there is no initial prompt:
\* the tips line, the greeting, and the line break eprintln! adds
Banner == <<Mark, NL, Mark, NL, NL>>

\* App::run up to the first read_pmt, and read_pmt up to its event loop
RunStart ==
    /\ pc = "start"
    /\ initial_pmt = <<>>
    /\ EnterReadPmt(TWrite(term, Banner, TRUE))
    /\ last' = "Start"
    /\ UNCHANGED <<result, exit_code, overflow_checks, history, requests, reads, keys, sess>>

\* a terminal whose cursor is at the start of row r, below rows of earlier output
TermAt(r) ==
    [rows |-> [i \in 1..Height |-> IF i <= r THEN <<Mark>> ELSE <<>>],
     r |-> r, c |-> 0, top |-> r]

\* App::new and the start of main, the program started with the prompt p
InitWith(p) ==
    /\ pc = "start"
    /\ raw = FALSE
    /\ pmts = <<>>
    /\ cursor_index = 0
    /\ pmts_index = 0
    /\ term \in {TermAt(r) : r \in 0..(Height - 1)}
    /\ result = <<>>
    /\ exit_code = -1
    /\ overflow_checks \in BOOLEAN
    /\ history = <<>>
    /\ requests = <<>>
    /\ reads = 0
    /\ keys = 0
    /\ last = "Init"
    /\ ref = RefEmpty
    /\ single = TRUE
    /\ initial_pmt = p
    /\ stream = <<>>
    /\ stream_items = <<>>
    /\ resp_buf = <<>>
    /\ resp_lines = 0
    /\ screen_width = Width
    /\ ok_turns = 0
    /\ failed = 0

\* the program started without a prompt on its command line
Init == InitWith(<<>>)

\* format!("{:#?}", pmt): the string quoted, its line breaks escaped
RECURSIVE Escape(_)
Escape(chars) ==
    IF chars = <<>> THEN <<>>
    ELSE (IF Head(chars) = NL THEN <<"\\", "n">> ELSE <<Head(chars)>>) \o Escape(Tail(chars))
DebugStr(str) == <<"\"">> \o Escape(Decode(str)) \o <<"\"">>

Rule == <<NL, "-", "-", "-", "-", "-", "-", NL>>

\* one turn of the loop of App::run after read_pmt has returned: the text is
\* printed, nothing is sent, and read_pmt is called again
RunLoop ==
    /\ pc = "returned"
    /\ EnterReadPmt(TWrite(term, Rule \o DebugStr(result), TRUE))
    /\ last' = "Loop"
    /\ UNCHANGED <<result, exit_code, overflow_checks, history, requests, reads, keys, sess>>

Next ==
    \/ RunStart
    \/ KeySubmit
    \/ KeyEnter
    \/ KeyUp
    \/ KeyDown
    \/ KeyLeft
    \/ KeyRight
    \/ KeyCtrlC
    \/ KeyCtrlE
    \/ KeyCtrlA
    \/ KeyChar
    \/ KeyBackspace
    \/ KeyOther
    \/ EventNonKey
    \/ EventReadError

\* one call of read_pmt, from the start of the program
Spec == Init /\ [][Next]_vars

NextLoop ==
    \/ RunStart
    \/ KeyChar
    \/ KeySubmit
    \/ KeyOther
    \/ RunLoop

\* the session loop, with a user who types text and submits it
SpecLoop == Init /\ [][NextLoop]_vars

\* ------------------------------------------------------------ the session
\* the initial prompts a session is started with
Prompts == {<<"h", "i">>}

\* delta.content of a chunk: text without and with a line break
Fragments == {<<"x">>, <<"x", NL>>}

\* an item of the response stream: a chunk whose choice carries a content,
\* a chunk whose choice carries none (content <<>>), or a transport error
Items ==
    {[kind |-> "chunk", content |-> f] : f \in Fragments \cup {<<>>}}
        \cup {[kind |-> "error", content |-> <<>>]}

Streams == UNION {[1..n -> Items] : n \in 0..MaxItems}

\* the row writeln!(lock, "error: {:#?}", e) writes; "!" stands for its text
ErrorNotice == <<"!", NL>>

\* the characters the raw echo of a stream puts on the terminal
EchoChars == {"x", "!"}

UserMsg(content) == [role |-> "user", content |-> content]
AssistantMsg(content) == [role |-> "assistant", content |-> content]

\* send_message up to the request: the user message is pushed onto history
SendWithoutPush(h, pmt) == h
send_message(h, pmt) == Append(h, UserMsg(pmt))

\* what run does with an Err of send_message: the if-let does not match and
\* history keeps what send_message pushed
RunDropsFailedTurn(h) == SubSeq(h, 1, Len(h) - 1)
run_on_err(h) == h

\* the items left once the while-let loop has handled item
AbortOnError(item, rest) == IF item.kind = "error" THEN <<>> ELSE rest
stream_rest(item, rest) == rest

\* str::lines: the text split at its line breaks, a final line break opening
\* no further line
RECURSIVE Lines(_, _)
Lines(chars, acc) ==
    IF chars = <<>> THEN (IF acc = <<>> THEN <<>> ELSE <<acc>>)
    ELSE IF Head(chars) = NL THEN <<acc>> \o Lines(Tail(chars), <<>>)
    ELSE Lines(Tail(chars), Append(acc, Head(chars)))

\* render_resp: resp_lines += (line.len() as u16 / screen_width) + 1, in u16
RECURSIVE SumRows(_, _)
SumRows(ls, w) ==
    IF ls = <<>> THEN 0
    ELSE ((((Len(Head(ls)) % 65536) \div w) + 1) + SumRows(Tail(ls), w)) % 65536

\* render_resp: the row count, at least 1
RespLines(buf, w) ==
    LET n == SumRows(Lines(buf, <<>>), w)
    IN  IF n < 1 THEN 1 ELSE n

\* the formatting pass of skin.print_text: styled text is shown in capitals
Fmt(chars) == [i \in 1..Len(chars) |-> IF chars[i] = "x" THEN "X" ELSE chars[i]]

\* skin.print_text(resp_buf): every line formatted and ended by a line break
RECURSIVE PrintLines(_)
PrintLines(ls) ==
    IF ls = <<>> THEN <<>> ELSE Fmt(Decode(Head(ls))) \o <<NL>> \o PrintLines(Tail(ls))
print_text(buf) == PrintLines(Lines(buf, <<>>))

\* App::render_resp on the terminal t
render_resp(t, buf, w, cooked) ==
    LET n == RespLines(buf, w)
        t1 == TMoveToPreviousLine(t, n - 1)
        t2 == TMoveLeft(t1, w)
        t3 == TClearFromCursorDown(t2)
        t4 == TWrite(t3, print_text(buf), cooked)
    IN  TWrite(t4, <<NL, NL>>, cooked)

\* println!("Tips: ...") at the start of App::run
Tips == <<Mark, NL>>

\* App::run with an initial prompt: send_message returns a stream
SendInitialOk ==
    /\ pc = "start"
    /\ initial_pmt # <<>>
    /\ history' = send_message(history, initial_pmt)
    /\ requests' = Append(requests, history')
    /\ \E s \in Streams : stream' = s /\ stream_items' = s
    /\ resp_buf' = <<>>
    /\ LET t == TWrite(term, Tips, ~raw) IN term' = [t EXCEPT !.top = t.r]
    /\ pc' = "streaming"
    /\ last' = "SendOk"
    /\ UNCHANGED <<raw, pmts, cursor_index, pmts_index, result, exit_code, overflow_checks,
                   reads, keys, ref, single, initial_pmt, resp_lines, screen_width,
                   ok_turns, failed>>

\* App::run with an initial prompt: send_message returns an error, run goes
\* on to its loop and read_pmt begins
SendInitialErr ==
    /\ pc = "start"
    /\ initial_pmt # <<>>
    /\ history' = run_on_err(send_message(history, initial_pmt))
    /\ requests' = Append(requests, send_message(history, initial_pmt))
    /\ failed' = failed + 1
    /\ EnterReadPmt(TWrite(term, Tips, ~raw))
    /\ last' = "SendErr"
    /\ UNCHANGED <<result, exit_code, overflow_checks, reads, keys, initial_pmt, stream,
                   stream_items, resp_buf, resp_lines, screen_width, ok_turns>>

\* one turn of the while-let loop of streaming_and_rendering_resp
StreamNext ==
    /\ pc = "streaming"
    /\ stream # <<>>
    /\ LET item == Head(stream)
       IN  /\ term' = IF item.kind = "chunk"
                      THEN TPrint(term, item.content, ~raw)
                      ELSE TWrite(term, ErrorNotice, ~raw)
           /\ resp_buf' = IF item.kind = "chunk" THEN resp_buf \o item.content ELSE resp_buf
           /\ stream' = stream_rest(item, Tail(stream))
    /\ last' = "Item"
    /\ UNCHANGED <<pc, raw, pmts, cursor_index, pmts_index, result, exit_code,
                   overflow_checks, history, requests, reads, keys, ref, single,
                   initial_pmt, stream_items, resp_lines, screen_width, ok_turns, failed>>

\* the stream has ended: the assistant message is pushed and render_resp runs
StreamEnd ==
    /\ pc = "streaming"
    /\ stream = <<>>
    /\ history' = Append(history, AssistantMsg(resp_buf))
    /\ resp_lines' = RespLines(resp_buf, screen_width)
    /\ term' = render_resp(term, resp_buf, screen_width, ~raw)
    /\ ok_turns' = ok_turns + 1
    /\ pc' = "rendered"
    /\ last' = "StreamEnd"
    /\ UNCHANGED <<raw, pmts, cursor_index, pmts_index, result, exit_code, overflow_checks,
                   requests, reads, keys, ref, single, initial_pmt, stream, stream_items,
                   resp_buf, screen_width, failed>>

\* App::run after the initial turn: the loop begins and read_pmt is called
RunAfterTurn ==
    /\ pc = "rendered"
    /\ EnterReadPmt(term)
    /\ last' = "Start"
    /\ UNCHANGED <<result, exit_code, overflow_checks, history, requests, reads, keys, sess>>

\* the program started with a prompt on its command line
InitPrompt == \E p \in Prompts : InitWith(p)

NextSession ==
    \/ SendInitialOk
    \/ SendInitialErr
    \/ StreamNext
    \/ StreamEnd
    \/ RunAfterTurn
    \/ KeyChar
    \/ KeySubmit
    \/ RunLoop

\* a session started with an initial prompt, then a user who types and submits
SpecSession == InitPrompt /\ [][NextSession]_vars

\* the texts whose rows are counted: up to MaxWidth + 1 bytes
Texts == UNION {[1..n -> {"x", NL}] : n \in 0..(MaxWidth + 1)}

\* render_resp about to count the rows of any text for any terminal width
InitRows ==
    /\ pc = "counting"
    /\ raw = FALSE
    /\ pmts = <<>>
    /\ cursor_index = 0
    /\ pmts_index = 0
    /\ term = TermAt(0)
    /\ result = <<>>
    /\ exit_code = -1
    /\ overflow_checks = FALSE
    /\ history = <<>>
    /\ requests = <<>>
    /\ reads = 0
    /\ keys = 0
    /\ last = "Init"
    /\ ref = RefEmpty
    /\ single = TRUE
    /\ initial_pmt = <<>>
    /\ stream = <<>>
    /\ stream_items = <<>>
    /\ resp_buf \in Texts
    /\ resp_lines = 0
    /\ screen_width \in 1..MaxWidth
    /\ ok_turns = 0
    /\ failed = 0

\* the row count of render_resp
CountRows ==
    /\ pc = "counting"
    /\ resp_lines' = RespLines(resp_buf, screen_width)
    /\ pc' = "counted"
    /\ last' = "Rows"
    /\ UNCHANGED <<raw, pmts, cursor_index, pmts_index, term, result, exit_code,
                   overflow_checks, history, requests, reads, keys, ref, single,
                   initial_pmt, stream, stream_items, resp_buf, screen_width,
                   ok_turns, failed>>

\* the row count as a function of text and width
SpecRows == InitRows /\ [][CountRows]_vars

\* ------------------------------------------------- terms of the claims
Terminated == pc \in {"returned", "exited", "panicked"}

\* a key event of kind key was handled in this step
Handled(key) == pc = "editing" /\ keys' = keys + 1 /\ last' = key

\* the rows a text occupies: its characters split at the line breaks
RECURSIVE SplitRows(_, _)
SplitRows(chars, acc) ==
    IF chars = <<>> THEN <<acc>>
    ELSE IF Head(chars) = NL THEN <<acc>> \o SplitRows(Tail(chars), <<>>)
    ELSE SplitRows(Tail(chars), Append(acc, Head(chars)))

\* the bytes of the buffer before the cursor
RECURSIVE BytesBefore(_, _)
BytesBefore(ps, n) == IF n = 0 \/ ps = <<>> THEN <<>> ELSE Head(ps) \o BytesBefore(Tail(ps), n - 1)
BeforeCursor ==
    BytesBefore(pmts, pmts_index)
        \o (IF pmts_index < Len(pmts)
            THEN SubSeq(pmts[pmts_index + 1], 1, Min(cursor_index, Len(pmts[pmts_index + 1])))
            ELSE <<>>)

\* a line without its trailing newline marker
Content(line) == SubSeq(line, 1, Cln(line))

\* the edit region shows the buffer and the cursor is where the buffer has it
ShowsBuffer ==
    LET rows == SplitRows(Decode(Join(pmts)), <<>>)
        before == SplitRows(Decode(BeforeCursor), <<>>)
    IN  /\ \A i \in 1..(Height - term.top) :
              term.rows[term.top + i] = (IF i <= Len(rows) THEN rows[i] ELSE <<>>)
        /\ term.r = term.top + Len(before) - 1
        /\ term.c = Len(before[Len(before)])

\* the number of newline bytes of a string
NLCount(str) == Len(SelectSeq(str, LAMBDA b : b = NL))

\* the characters of a line before byte offset ci
CharsBefore(line, ci) == Len(Decode(SubSeq(line, 1, Min(ci, Len(line)))))

\* a sequence without its k-th element
RemoveAt(seq, k) == SubSeq(seq, 1, k - 1) \o SubSeq(seq, k + 1, Len(seq))

\* user and assistant entries alternate, the first a user entry
Alternates(h) ==
    \A i \in 1..Len(h) : h[i].role = (IF i % 2 = 1 THEN "user" ELSE "assistant")

\* h is g with entries appended
Extends(h, g) == Len(h) >= Len(g) /\ SubSeq(h, 1, Len(g)) = g

\* no turn is under way
AtRest == pc \notin {"start", "streaming"}

\* the text fragments of a stream's items, concatenated in arrival order
RECURSIVE ConcatFragments(_)
ConcatFragments(items) ==
    IF items = <<>> THEN <<>>
    ELSE (IF Head(items).kind = "chunk" THEN Head(items).content ELSE <<>>)
            \o ConcatFragments(Tail(items))

\* the rows from the first row of the response on show the formatted text only
ShowsFormatted ==
    LET ls == Lines(resp_buf, <<>>)
    IN  \A i \in 1..(Height - term.top) :
            term.rows[term.top + i] = (IF i <= Len(ls) THEN Fmt(Decode(ls[i])) ELSE <<>>)

\* ---------------------------------------------------------------- claims
\* C1: after every key event handled by read_pmt, the visible rows of the edit
\* region show exactly the characters and line breaks of the buffer pmts, and
\* the terminal cursor is at the position of (pmts_index, cursor_index).
\* (Stated while the first row of the region is still on the grid.)
C1_DisplayMatchesBuffer ==
    (pc = "editing" /\ term.top >= 0) => ShowsBuffer

\* C2: whenever read_pmt has returned, the process has exited through Ctrl+C or
\* a panic has ended it, raw mode is disabled.
C2_RawModeOffOnEveryExit ==
    Terminated => ~raw

\* C2 witness: a panic raised by a failed terminal query in the redraw of a
\* mid-buffer Enter has ended the program, and raw mode is off.
C2_Witness ==
    pc = "panicked" /\ last = "Enter" /\ pmts_index < Len(pmts) - 1 /\ ~raw

\* C3: what Ctrl+Enter returns is the text of the lines the user typed, joined
\* by one newline between consecutive lines and nothing more.
C3_SubmitReturnsTypedLines ==
    (pc = "returned" /\ last = "Submit") => Decode(result) = RefText(ref.lines)

\* C4: Enter on an existing line, with the cursor on a character boundary of
\* its content, splits it at the cursor: the characters before the cursor stay,
\* those at and after it become the next line, there is one line more, the
\* active line is the new one and the cursor column is 0.
C4_EnterSplitsAtCursor ==
    [][(/\ Handled("Enter") /\ pc' = "editing" /\ pmts_index < Len(pmts)
        /\ cursor_index <= Cln(pmts[pmts_index + 1])
        /\ IsCharBoundary(pmts[pmts_index + 1], cursor_index)) =>
          LET line == pmts[pmts_index + 1]
              at == cursor_index
          IN  /\ Len(pmts') = Len(pmts) + 1
              /\ pmts_index' = pmts_index + 1
              /\ cursor_index' = 0
              /\ Content(pmts'[pmts_index + 1]) = SubSeq(line, 1, at)
              /\ Content(pmts'[pmts_index + 2]) = SubSeq(line, at + 1, Cln(line))]_vars

\* C5: while the buffer holds at least one line, 0 <= pmts_index < pmts.len().
C5_ActiveLineInRange ==
    (pc = "editing" /\ pmts # <<>>) => (pmts_index >= 0 /\ pmts_index < Len(pmts))

\* C6: the cursor column is within the content of the active line, its trailing
\* newline excluded.
C6_CursorWithinContent ==
    (pc = "editing" /\ pmts_index < Len(pmts)) =>
        (cursor_index >= 0 /\ cursor_index <= Cln(pmts[pmts_index + 1]))

\* C7: Ctrl+C while the buffer's text is empty disables raw mode and ends the
\* process with exit code 0, and Ctrl+C never ends it while the buffer holds text.
C7_CtrlCOnEmptyTextExits ==
    [][Handled("CtrlC") =>
          /\ (Join(pmts) = <<>> => (pc' = "exited" /\ ~raw' /\ exit_code' = 0))
          /\ (pc' = "exited" => Join(pmts) = <<>>)]_vars

\* C8: Ctrl+C while the buffer is non-empty does not exit, empties the buffer,
\* puts the active line and the cursor column at 0, and leaves no text in any
\* row of the edit region.
C8_CtrlCOnTextClears ==
    [][(Handled("CtrlC") /\ pmts # <<>>) =>
          /\ pc' = "editing"
          /\ pmts' = <<>>
          /\ pmts_index' = 0
          /\ cursor_index' = 0
          /\ \A i \in 1..Height : i > term.top => term'.rows[i] = <<>>]_vars

\* C9: after any single-line events (insert, Backspace/Delete, Left, Right,
\* Ctrl+A, Ctrl+E) from an empty buffer the editor is still running, and its
\* text and cursor column, counted in characters, are those of the reference.
C9_SingleLineMatchesReference ==
    (single /\ last \in SingleLineKeys) =>
        /\ pc = "editing"
        /\ Decode(Join(pmts)) = ref.lines[1]
        /\ Len(Decode(BeforeCursor)) = ref.col

\* C10: when the editor is invoked again after returning a text longer than 1,
\* that text is the last user Turn of History and was submitted in a request
\* holding the entire History.
C10_ReturnedTurnIsSubmitted ==
    (pc = "editing" /\ reads > 0 /\ Len(result) > 1) =>
        /\ \E i \in 1..Len(history) : history[i] = [role |-> "user", content |-> result]
        /\ \E k \in 1..Len(requests) :
              /\ requests[k] # <<>>
              /\ requests[k][Len(requests[k])] = [role |-> "user", content |-> result]

\* C16: Up / Down move the active line by exactly one when the target index is
\* in range and otherwise leave buffer, active line and cursor column unchanged
\* (also on the empty buffer); after a move the cursor column is the minimum of
\* the previous column and the content length of the new line, its trailing
\* newline excluded, for Up and for Down alike.
C16_UpDownMoveAndClamp ==
    [][(Handled("Up") \/ Handled("Down")) =>
          LET target == IF last' = "Up" THEN pmts_index - 1 ELSE pmts_index + 1
          IN  /\ pc' = "editing"
              /\ pmts' = pmts
              /\ IF target >= 0 /\ target < Len(pmts)
                 THEN /\ pmts_index' = target
                      /\ cursor_index' = Min(cursor_index, Cln(pmts[target + 1]))
                 ELSE UNCHANGED <<pmts_index, cursor_index>>]_vars

\* C17: Backspace/Delete at column 0 leaves buffer, active line and column
\* unchanged; at a column > 0 it removes exactly the character before the
\* cursor and decrements the column by one; it never removes a newline, joins
\* lines or changes the number of lines.
C17_BackspaceKeepsLines ==
    [][Handled("Backspace") =>
          /\ pc' = "editing"
          /\ Len(pmts') = Len(pmts)
          /\ NLCount(Join(pmts')) = NLCount(Join(pmts))
          /\ pmts_index' = pmts_index
          /\ (cursor_index = 0 => UNCHANGED <<pmts, cursor_index>>)
          /\ (cursor_index > 0 /\ pmts_index < Len(pmts)) =>
                LET line == pmts[pmts_index + 1]
                IN  /\ cursor_index' = cursor_index - 1
                    /\ Decode(pmts'[pmts_index + 1]) =
                          RemoveAt(Decode(line), CharsBefore(line, cursor_index))
                    /\ \A i \in 1..Len(pmts) : i # pmts_index + 1 => pmts'[i] = pmts[i]]_vars

\* C18: a key event outside the handled set ends the capture loop from every
\* editor state: raw mode is disabled and the concatenation of the buffer lines
\* is returned, the buffer unmodified; an event that is no key event does not
\* end the loop and changes neither buffer nor cursor.
C18_OtherKeyReturnsBuffer ==
    [][/\ Handled("Other") =>
             (pc' = "returned" /\ ~raw' /\ result' = Join(pmts) /\ pmts' = pmts)
       /\ Handled("NonKey") =>
             (pc' = "editing" /\ raw' = raw
              /\ UNCHANGED <<pmts, pmts_index, cursor_index, result>>)]_vars

\* C18 witness: an unhandled key has ended the capture of a buffer of two
\* lines, whose concatenation was returned with raw mode off.
C18_Witness ==
    /\ pc = "returned" /\ last = "Other" /\ ~raw
    /\ Len(pmts) > 1 /\ result = Join(pmts) /\ result # <<>>

\* C19: no key event makes read_pmt panic.  (Steps in which a terminal read or
\* query itself fails, which only ReadError and Enter steps can be, are left
\* aside: the arrows, characters, Backspace/Delete and the control keys never
\* end the program with a panic.)
C19_NoKeySequenceFaults ==
    pc = "panicked" => last \in {"ReadError", "Enter"}

\* C20: every line of the buffer except the last ends with exactly one newline
\* and holds no other, and the last line holds none.
C20_BufferWellFormed ==
    pc = "editing" =>
        \A i \in 1..Len(pmts) :
            IF i < Len(pmts)
            THEN EndsWithNL(pmts[i]) /\ NLCount(pmts[i]) = 1
            ELSE NLCount(pmts[i]) = 0

\* C11 as stated: History is append-only, its entries alternate user/assistant
\* starting with user, and whenever no turn is under way it has exactly 2N
\* entries for the N successful turns so far, failed submissions included.
C11_TwoEntriesPerSuccessfulTurn ==
    [][/\ Extends(history', history)
       /\ Alternates(history')
       /\ AtRest' => Len(history') = 2 * ok_turns']_vars

\* C11 amended: History is append-only, its entries alternate user/assistant
\* starting with user, and whenever no turn is under way it has 2N + F entries
\* for N successful turns and F failed submissions.
C11_HistoryAlternates ==
    [][/\ Extends(history', history)
       /\ Alternates(history')
       /\ AtRest' => Len(history') = 2 * ok_turns' + failed']_vars

\* C11 witness: the initial turn succeeded, History holds its user and its
\* assistant entry, and the editor has since returned a text and runs again.
C11_Witness ==
    /\ pc = "editing" /\ ok_turns = 1 /\ reads > 0
    /\ Len(history) = 2 /\ history[1] = UserMsg(initial_pmt)
    /\ history[2].role = "assistant"

\* C12: when the stream has ended and render_resp has run, the rows from the
\* first row of the response on show the formatted text and nothing else: no
\* row of the raw echo, error notices included, is left.  (Stated while that
\* first row is still on the grid.)
C12_OnlyFormattedTextShown ==
    (pc = "rendered" /\ term.top >= 0) => ShowsFormatted

\* C13: for every width W >= 1 the row count of a single-line text of W bytes
\* is 1, of W + 1 bytes is 2, and of the empty text is 1.
C13_RowCountAtWidth ==
    pc = "counted" =>
        /\ (NLCount(resp_buf) = 0 /\ Len(resp_buf) = screen_width) => resp_lines = 1
        /\ (NLCount(resp_buf) = 0 /\ Len(resp_buf) = screen_width + 1) => resp_lines = 2
        /\ resp_buf = <<>> => resp_lines = 1

\* C14: every item of the stream is consumed, an error item leaving the
\* accumulated text as it is and the loop running, and the assistant entry
\* pushed at the end of the stream holds the concatenation of all fragments of
\* the stream in arrival order.
C14_ErrorItemsDoNotAbort ==
    [][/\ (pc = "streaming" /\ stream # <<>>) =>
             /\ pc' = "streaming"
             /\ stream' = Tail(stream)
             /\ Head(stream).kind = "error" => resp_buf' = resp_buf
       /\ (pc = "streaming" /\ pc' # "streaming") =>
             /\ stream = <<>>
             /\ history' = Append(history, AssistantMsg(ConcatFragments(stream_items)))]_vars

\* C14 witness: a stream with an error item followed by a text fragment has
\* ended and the assistant entry holds the fragment.
C14_Witness ==
    /\ pc = "rendered"
    /\ \E i, j \in 1..Len(stream_items) :
          /\ i < j
          /\ stream_items[i].kind = "error"
          /\ stream_items[j].kind = "chunk" /\ stream_items[j].content # <<>>
    /\ history[Len(history)] = AssistantMsg(resp_buf) /\ resp_buf # <<>>

\* C15: when send_message returns an error the user entry stays in History,
\* no assistant entry is appended then or later, nothing beyond the tips line
\* is written to the terminal, and run goes on to the editor.
C15_FailedSubmissionKeepsUserTurn ==
    [][/\ (pc = "start" /\ last' = "SendErr") =>
             /\ history' = Append(history, UserMsg(initial_pmt))
             /\ term'.rows = TWrite(term, Tips, TRUE).rows
             /\ ok_turns' = ok_turns
             /\ pc' = "editing"
       /\ failed' > 0 => history' = <<UserMsg(initial_pmt)>>]_vars

\* C15 witness: the submission failed, History holds the user entry alone and
\* the editor has handled a key.
C15_Witness ==
    /\ pc = "editing" /\ failed = 1 /\ keys > 0
    /\ history = <<UserMsg(initial_pmt)>>

====
